---- MODULE Spec2Model ----
(***************************************************************************)
(* Vector expansion pass of the Aseba compiler (compiler/tree-expand.cpp). *)
(* Nodes are objects of a heap: heap[id] is the node with identity id, and *)
(* a node's children are identities.  treeExpand and the two memory        *)
(* queries are translated method by method.  A failed assert() ends the    *)
(* run (result "assert"); a thrown Error unwinds through the auto_ptr      *)
(* locals (result "throw").                                                *)
(***************************************************************************)
EXTENDS Integers, Sequences, FiniteSets, TLC

\* ------------------------------------------------------------------ bounds
\* width of `unsigned` in the model (32 in the build)
UIntBits == 5
\* largest element index a caller passes to treeExpand
MaxIndex == 2

UIntMod == 2 ^ UIntBits
\* conversion of an int to unsigned
ToUnsigned(x) == x % UIntMod
\* the no-value sentinel, the largest unsigned
E_NOVAL == UIntMod - 1

\* ------------------------------------------------------------------ nodes
NewNode(kind, pos) ==
    [kind |-> kind, sourcePos |-> pos, children |-> <<>>, op |-> "",
     values |-> <<>>, value |-> 0, arrayAddr |-> 0, arraySize |-> 0,
     write |-> FALSE, address |-> 0]

ImmediateNode(pos, v) == [NewNode("Immediate", pos) EXCEPT !.value = v]
LoadNode(pos, a) == [NewNode("Load", pos) EXCEPT !.address = a]
StoreNode(pos, a) == [NewNode("Store", pos) EXCEPT !.address = a]
BlockNode(pos) == NewNode("Block", pos)
AssignmentNode(pos) == NewNode("Assignment", pos)
BinaryArithmeticNode(pos, op, l, r) ==
    [NewNode("BinaryArithmetic", pos) EXCEPT !.op = op, !.children = <<l, r>>]
UnaryArithmeticNode(pos, op, c) ==
    [NewNode("UnaryArithmetic", pos) EXCEPT !.op = op, !.children = <<c>>]

\* ------------------------------------------------ results of the queries
QOk(v) == [st |-> "ok", val |-> v, pos |-> 0, msg |-> ""]
QThrow(pos, msg) == [st |-> "throw", val |-> 0, pos |-> pos, msg |-> msg]
QAssert(msg) == [st |-> "assert", val |-> 0, pos |-> 0, msg |-> msg]

\* StaticVectorNode::getMemorySize: the number of literal values
StaticVector_getMemorySize(heap, n) == Len(heap[n].values)

\* getMemorySize of an Immediate, a Load or a Store: one cell
Scalar_getMemorySize(heap, n) == 1

\* getMemoryAddr of a Load or a Store: its address
Scalar_getMemoryAddr(heap, n) == heap[n].address

\* StaticVectorNode::getValue
StaticVector_getValue(heap, n, index) ==
    IF index < StaticVector_getMemorySize(heap, n)
    THEN QOk(heap[n].values[index + 1])
    ELSE QAssert("index < getMemorySize()")

\* MemoryVectorNode::getMemorySize
MemoryVector_getMemorySize(heap, n) ==
    IF Len(heap[n].children) = 1
    THEN LET index == heap[n].children[1] IN
         IF heap[index].kind = "StaticVector"
         THEN IF StaticVector_getMemorySize(heap, index) = 1
              THEN QOk(1)
              ELSE LET hi == StaticVector_getValue(heap, index, 1)
                       lo == StaticVector_getValue(heap, index, 0)
                   IN  IF hi.st # "ok" THEN hi
                       ELSE IF lo.st # "ok" THEN lo
                       ELSE QOk(ToUnsigned(hi.val - lo.val + 1))
         ELSE QOk(1)
    ELSE QOk(heap[n].arraySize)

RECURSIVE getMemorySize(_, _)
RECURSIVE Node_getMemorySizeFrom(_, _, _, _)

\* the loop of Node::getMemorySize from child k on, `size` being the local
Node_getMemorySizeFrom(heap, n, k, size) ==
    IF k > Len(heap[n].children)
    THEN QOk(size)
    ELSE LET new_size == getMemorySize(heap, heap[n].children[k]) IN
         IF new_size.st # "ok" THEN new_size
         ELSE IF size = E_NOVAL
              THEN Node_getMemorySizeFrom(heap, n, k + 1, new_size.val)
         ELSE IF size # new_size.val
              THEN QThrow(heap[n].sourcePos, "Size mismatch between vectors")
         ELSE Node_getMemorySizeFrom(heap, n, k + 1, size)

\* Node::getMemorySize
Node_getMemorySize(heap, n) == Node_getMemorySizeFrom(heap, n, 1, E_NOVAL)

\* the virtual call n->getMemorySize()
getMemorySize(heap, n) ==
    CASE heap[n].kind = "MemoryVector" -> MemoryVector_getMemorySize(heap, n)
      [] heap[n].kind = "StaticVector" -> QOk(StaticVector_getMemorySize(heap, n))
      [] heap[n].kind \in {"Immediate", "Load", "Store"} -> QOk(Scalar_getMemorySize(heap, n))
      [] OTHER -> Node_getMemorySize(heap, n)

\* MemoryVectorNode::getMemoryAddr with the shift of the index forgotten
MemoryVector_getMemoryAddr_noShift(heap, n) ==
    IF Len(heap[n].children) = 1
    THEN LET index == heap[n].children[1] IN
         IF heap[index].kind = "StaticVector"
         THEN QOk(ToUnsigned(heap[n].arrayAddr))
         ELSE QOk(E_NOVAL)
    ELSE QOk(ToUnsigned(heap[n].arrayAddr + 0))

\* MemoryVectorNode::getMemoryAddr
MemoryVector_getMemoryAddr(heap, n) ==
    IF Len(heap[n].children) = 1
    THEN LET index == heap[n].children[1] IN
         IF heap[index].kind = "StaticVector"
         THEN LET shift == StaticVector_getValue(heap, index, 0) IN
              IF shift.st # "ok" THEN shift
              ELSE QOk(ToUnsigned(heap[n].arrayAddr + ToUnsigned(shift.val)))
         ELSE QOk(E_NOVAL)
    ELSE QOk(ToUnsigned(heap[n].arrayAddr + 0))

RECURSIVE getMemoryAddr(_, _)

\* Node::getMemoryAddr
Node_getMemoryAddr(heap, n) ==
    IF Len(heap[n].children) > 0
    THEN getMemoryAddr(heap, heap[n].children[1])
    ELSE QOk(E_NOVAL)

\* the virtual call n->getMemoryAddr()
getMemoryAddr(heap, n) ==
    CASE heap[n].kind = "MemoryVector" -> MemoryVector_getMemoryAddr(heap, n)
      [] heap[n].kind \in {"Load", "Store"} -> QOk(Scalar_getMemoryAddr(heap, n))
      [] OTHER -> Node_getMemoryAddr(heap, n)

\* whether MemoryVectorNode::getMemoryAddr leaves through its
\* "not know at compile time" return
AddrUnknown(heap, n) ==
    /\ Len(heap[n].children) = 1
    /\ heap[heap[n].children[1]].kind # "StaticVector"

\* ------------------------------------------------- state of an expansion
\* heap: the node objects; deleted: the identities already freed;
\* unknownAddr: the nodes built from the sentinel address plus an index.
\* st is "ok" (val is the returned node), "throw" (an Error with sourcePos
\* pos and message msg, the two sizes when hasSizes) or "assert".
XRet(h, d, u, v) ==
    [heap |-> h, deleted |-> d, unknownAddr |-> u, st |-> "ok", val |-> v,
     pos |-> 0, msg |-> "", hasSizes |-> FALSE, lSize |-> 0, rSize |-> 0]
XThrow(h, d, u, pos, msg, has, l, r) ==
    [heap |-> h, deleted |-> d, unknownAddr |-> u, st |-> "throw", val |-> 0,
     pos |-> pos, msg |-> msg, hasSizes |-> has, lSize |-> l, rSize |-> r]
XAssert(h, d, u, msg) ==
    [heap |-> h, deleted |-> d, unknownAddr |-> u, st |-> "assert", val |-> 0,
     pos |-> 0, msg |-> msg, hasSizes |-> FALSE, lSize |-> 0, rSize |-> 0]
\* a query that did not return leaves the caller the same way
XFromQ(h, d, u, q) ==
    IF q.st = "throw" THEN XThrow(h, d, u, q.pos, q.msg, FALSE, 0, 0)
    ELSE XAssert(h, d, u, q.msg)

\* new T(...): the object gets the next identity
New(h, node) == Append(h, node)
NewId(h) == Len(h) + 1

RECURSIVE Reach(_, _)
\* the nodes owned by n: n and, through the child lists, its descendants
Reach(h, n) == {n} \cup UNION {Reach(h, h[n].children[k]) : k \in 1..Len(h[n].children)}

\* delete n: Node's destructor deletes the children
Delete(h, d, n) == d \cup Reach(h, n)

RECURSIVE treeExpand(_, _, _, _, _)
RECURSIVE Node_treeExpandFrom(_, _, _, _, _, _)
RECURSIVE Assignment_treeExpandLoop(_, _, _, _, _)

\* the loop of Node::treeExpand from child k on
Node_treeExpandFrom(h, d, u, n, index, k) ==
    IF k > Len(h[n].children)
    THEN XRet(h, d, u, n)
    ELSE LET r == treeExpand(h, d, u, h[n].children[k], index) IN
         IF r.st # "ok" THEN r
         ELSE Node_treeExpandFrom([r.heap EXCEPT ![n].children[k] = r.val],
                                  r.deleted, r.unknownAddr, n, index, k + 1)

\* Node::treeExpand
Node_treeExpand(h, d, u, n, index) == Node_treeExpandFrom(h, d, u, n, index, 1)

\* one pass through the body of the element loop of
\* AssignmentNode::treeExpand, for element i, from the state x; block is the
\* new BlockNode.  An Error thrown by an operand unwinds through the
\* auto_ptrs `assignment` and `block`.
Assignment_treeExpandElement(x, n, block, i) ==
    LET h == x.heap
        leftVector == h[n].children[1]
        rightVector == h[n].children[2]
        assignment == NewId(h)
        h1 == New(h, AssignmentNode(h[n].sourcePos))
        l == treeExpand(h1, x.deleted, x.unknownAddr, leftVector, i)
    IN  IF l.st = "assert" THEN l
        ELSE IF l.st = "throw"
        THEN [l EXCEPT !.deleted = Delete(l.heap, Delete(l.heap, l.deleted, assignment), block)]
        ELSE
        LET h2 == [l.heap EXCEPT ![assignment].children = Append(@, l.val)]
            r == treeExpand(h2, l.deleted, l.unknownAddr, rightVector, i)
        IN  IF r.st = "assert" THEN r
            ELSE IF r.st = "throw"
            THEN [r EXCEPT !.deleted = Delete(r.heap, Delete(r.heap, r.deleted, assignment), block)]
            ELSE XRet([r.heap EXCEPT ![assignment].children = Append(@, r.val),
                                     ![block].children = Append(@, assignment)],
                      r.deleted, r.unknownAddr, block)

\* the passes i = lo, lo + 1, .. hi - 1 of the element loop, in this order,
\* from the state x; a pass that throws or aborts ends the loop
Assignment_treeExpandLoop(x, n, block, lo, hi) ==
    IF x.st # "ok" \/ ~(lo < hi) THEN x
    ELSE IF lo + 1 = hi THEN Assignment_treeExpandElement(x, n, block, lo)
    ELSE LET mid == (lo + hi) \div 2 IN
         Assignment_treeExpandLoop(Assignment_treeExpandLoop(x, n, block, lo, mid),
                                   n, block, mid, hi)

\* AssignmentNode::treeExpand with the element loop running one element too far
Assignment_treeExpand_oneMore(h, d, u, n, index) ==
    LET lSize == getMemorySize(h, h[n].children[1])
        rSize == getMemorySize(h, h[n].children[2])
    IN  IF lSize.st # "ok" THEN XFromQ(h, d, u, lSize)
        ELSE IF rSize.st # "ok" THEN XFromQ(h, d, u, rSize)
        ELSE IF lSize.val # rSize.val
        THEN XThrow(h, d, u, h[n].sourcePos, "Inconsistent size!", TRUE, lSize.val, rSize.val)
        ELSE IF h[h[n].children[1]].kind # "MemoryVector"
        THEN XAssert(h, d, u, "leftVector")
        ELSE LET h1 == [h EXCEPT ![h[n].children[1]].write = TRUE]
                 block == NewId(h1)
                 h2 == New(h1, BlockNode(h[n].sourcePos))
                 x == Assignment_treeExpandLoop(XRet(h2, d, u, block), n, block, 0, lSize.val + 1)
             IN  IF x.st # "ok" THEN x
                 ELSE XRet(x.heap, Delete(x.heap, x.deleted, n), x.unknownAddr, block)

\* AssignmentNode::treeExpand with the target left unmarked
Assignment_treeExpand_noWrite(h, d, u, n, index) ==
    LET lSize == getMemorySize(h, h[n].children[1])
        rSize == getMemorySize(h, h[n].children[2])
    IN  IF lSize.st # "ok" THEN XFromQ(h, d, u, lSize)
        ELSE IF rSize.st # "ok" THEN XFromQ(h, d, u, rSize)
        ELSE IF lSize.val # rSize.val
        THEN XThrow(h, d, u, h[n].sourcePos, "Inconsistent size!", TRUE, lSize.val, rSize.val)
        ELSE IF h[h[n].children[1]].kind # "MemoryVector"
        THEN XAssert(h, d, u, "leftVector")
        ELSE LET block == NewId(h)
                 h2 == New(h, BlockNode(h[n].sourcePos))
                 x == Assignment_treeExpandLoop(XRet(h2, d, u, block), n, block, 0, lSize.val)
             IN  IF x.st # "ok" THEN x
                 ELSE XRet(x.heap, Delete(x.heap, x.deleted, n), x.unknownAddr, block)

\* AssignmentNode::treeExpand
Assignment_treeExpand(h, d, u, n, index) ==
    LET lSize == getMemorySize(h, h[n].children[1])
        rSize == getMemorySize(h, h[n].children[2])
    IN  IF lSize.st # "ok" THEN XFromQ(h, d, u, lSize)
        ELSE IF rSize.st # "ok" THEN XFromQ(h, d, u, rSize)
        ELSE IF lSize.val # rSize.val
        THEN XThrow(h, d, u, h[n].sourcePos, "Inconsistent size!", TRUE, lSize.val, rSize.val)
        ELSE IF h[h[n].children[1]].kind # "MemoryVector"
        THEN XAssert(h, d, u, "leftVector")
        ELSE LET h1 == [h EXCEPT ![h[n].children[1]].write = TRUE]
                 block == NewId(h1)
                 h2 == New(h1, BlockNode(h[n].sourcePos))
                 x == Assignment_treeExpandLoop(XRet(h2, d, u, block), n, block, 0, lSize.val)
             IN  IF x.st # "ok" THEN x
                 ELSE XRet(x.heap, Delete(x.heap, x.deleted, n), x.unknownAddr, block)

\* BinaryArithmeticNode::treeExpand with the right operand expanded at the
\* first element whatever the index
BinaryArithmetic_treeExpand_firstElement(h, d, u, n, index) ==
    LET lSize == getMemorySize(h, h[n].children[1])
        rSize == getMemorySize(h, h[n].children[2])
    IN  IF lSize.st # "ok" THEN XFromQ(h, d, u, lSize)
        ELSE IF rSize.st # "ok" THEN XFromQ(h, d, u, rSize)
        ELSE IF lSize.val # rSize.val
        THEN XThrow(h, d, u, h[n].sourcePos, "Inconsistent size!", TRUE, lSize.val, rSize.val)
        ELSE LET left == treeExpand(h, d, u, h[n].children[1], index) IN
             IF left.st # "ok" THEN left
             ELSE LET right == treeExpand(left.heap, left.deleted, left.unknownAddr,
                                          h[n].children[2], 0)
                  IN  IF right.st = "assert" THEN right
                      ELSE IF right.st = "throw"
                      THEN [right EXCEPT !.deleted = Delete(right.heap, right.deleted, left.val)]
                      ELSE XRet(New(right.heap,
                                    BinaryArithmeticNode(h[n].sourcePos, h[n].op, left.val, right.val)),
                                right.deleted, right.unknownAddr, NewId(right.heap))

\* BinaryArithmeticNode::treeExpand
BinaryArithmetic_treeExpand(h, d, u, n, index) ==
    LET lSize == getMemorySize(h, h[n].children[1])
        rSize == getMemorySize(h, h[n].children[2])
    IN  IF lSize.st # "ok" THEN XFromQ(h, d, u, lSize)
        ELSE IF rSize.st # "ok" THEN XFromQ(h, d, u, rSize)
        ELSE IF lSize.val # rSize.val
        THEN XThrow(h, d, u, h[n].sourcePos, "Inconsistent size!", TRUE, lSize.val, rSize.val)
        ELSE LET left == treeExpand(h, d, u, h[n].children[1], index) IN
             IF left.st # "ok" THEN left
             ELSE LET right == treeExpand(left.heap, left.deleted, left.unknownAddr,
                                          h[n].children[2], index)
                  IN  IF right.st = "assert" THEN right
                      ELSE IF right.st = "throw"
                      THEN [right EXCEPT !.deleted = Delete(right.heap, right.deleted, left.val)]
                      ELSE XRet(New(right.heap,
                                    BinaryArithmeticNode(h[n].sourcePos, h[n].op, left.val, right.val)),
                                right.deleted, right.unknownAddr, NewId(right.heap))

\* UnaryArithmeticNode::treeExpand
UnaryArithmetic_treeExpand(h, d, u, n, index) ==
    LET left == treeExpand(h, d, u, h[n].children[1], index) IN
    IF left.st # "ok" THEN left
    ELSE XRet(New(left.heap, UnaryArithmeticNode(h[n].sourcePos, h[n].op, left.val)),
              left.deleted, left.unknownAddr, NewId(left.heap))

\* StaticVectorNode::treeExpand falling back on the generic rule
StaticVector_treeExpand_generic(h, d, u, n, index) == XRet(h, d, u, n)

\* StaticVectorNode::treeExpand
StaticVector_treeExpand(h, d, u, n, index) ==
    LET v == StaticVector_getValue(h, n, index) IN
    IF v.st # "ok" THEN XFromQ(h, d, u, v)
    ELSE XRet(New(h, ImmediateNode(h[n].sourcePos, v.val)), d, u, NewId(h))

\* MemoryVectorNode::treeExpand
MemoryVector_treeExpand(h, d, u, n, index) ==
    LET size == getMemorySize(h, n)
        addr == getMemoryAddr(h, n)
    IN  IF size.st # "ok" THEN XFromQ(h, d, u, size)
        ELSE IF ~(index < size.val) THEN XAssert(h, d, u, "index < getMemorySize()")
        ELSE IF addr.st # "ok" THEN XFromQ(h, d, u, addr)
        ELSE LET a == ToUnsigned(addr.val + index)
                 u1 == IF AddrUnknown(h, n) THEN u \cup {NewId(h)} ELSE u
             IN  IF h[n].write = TRUE
                 THEN XRet(New(h, StoreNode(h[n].sourcePos, a)), d, u1, NewId(h))
                 ELSE XRet(New(h, LoadNode(h[n].sourcePos, a)), d, u1, NewId(h))

\* the virtual call n->treeExpand(dump, index)
treeExpand(h, d, u, n, index) ==
    CASE h[n].kind = "Assignment" -> Assignment_treeExpand(h, d, u, n, index)
      [] h[n].kind = "BinaryArithmetic" -> BinaryArithmetic_treeExpand(h, d, u, n, index)
      [] h[n].kind = "UnaryArithmetic" -> UnaryArithmetic_treeExpand(h, d, u, n, index)
      [] h[n].kind = "StaticVector" -> StaticVector_treeExpand(h, d, u, n, index)
      [] h[n].kind = "MemoryVector" -> MemoryVector_treeExpand(h, d, u, n, index)
      [] OTHER -> Node_treeExpand(h, d, u, n, index)

\* ------------------------------------------------------- the input trees
\* a tree as the parser hands it over, before it is laid out in the heap
Desc(kind, ch) ==
    [kind |-> kind, ch |-> ch, op |-> "", values |-> <<>>, value |-> 0,
     arrayAddr |-> 0, arraySize |-> 0]
StaticVectorDesc(vals) == [Desc("StaticVector", <<>>) EXCEPT !.values = vals]
ImmediateDesc(v) == [Desc("Immediate", <<>>) EXCEPT !.value = v]
MemoryVectorDesc(addr, size, ch) ==
    [Desc("MemoryVector", ch) EXCEPT !.arrayAddr = addr, !.arraySize = size]
BinaryDesc(op, l, r) == [Desc("BinaryArithmetic", <<l, r>>) EXCEPT !.op = op]
UnaryDesc(op, c) == [Desc("UnaryArithmetic", <<c>>) EXCEPT !.op = op]

RECURSIVE Build(_, _)
RECURSIVE BuildChildren(_, _, _, _)
\* lays the tree t out in the heap h; its root gets identity NewId(h), and
\* every node its identity as source position
Build(h, t) ==
    LET id == NewId(h)
        node == [NewNode(t.kind, id) EXCEPT !.op = t.op, !.values = t.values,
                     !.value = t.value, !.arrayAddr = t.arrayAddr,
                     !.arraySize = t.arraySize]
    IN  BuildChildren(New(h, node), id, t.ch, 1)
BuildChildren(h, id, ch, k) ==
    IF k > Len(ch) THEN h
    ELSE BuildChildren([Build(h, ch[k]) EXCEPT ![id].children = Append(@, NewId(h))],
                       id, ch, k + 1)

\* constant indices: one index, or a pair lo, hi (also with hi < lo)
ConstIndices == {<<1>>, <<0, 2>>, <<1, 2>>, <<1, 0>>, <<2, 0>>}
\* a scalar variable used as an index that is not known at compile time
DynIndex == MemoryVectorDesc(5, 1, <<>>)
MemoryVectors(addr) ==
    {MemoryVectorDesc(addr, size, <<>>) : size \in {0, 2, 3}}
    \cup {MemoryVectorDesc(addr, 3, <<StaticVectorDesc(ix)>>) : ix \in ConstIndices}
    \cup {MemoryVectorDesc(addr, 3, <<DynIndex>>)}
Targets == MemoryVectors(10)
Leaves ==
    MemoryVectors(20)
    \cup {StaticVectorDesc(<<5>>), StaticVectorDesc(<<5, 6>>), StaticVectorDesc(<<5, 6, 7>>)}
    \cup {ImmediateDesc(7), Desc("Node", <<>>)}
FewLeaves ==
    {MemoryVectorDesc(20, 2, <<>>), MemoryVectorDesc(20, 3, <<>>),
     StaticVectorDesc(<<5, 6, 7>>), ImmediateDesc(7), Desc("Node", <<>>)}
Flat ==
    {BinaryDesc("+", l, r) : l \in Leaves, r \in Leaves}
    \cup {UnaryDesc("-", c) : c \in Leaves}
    \cup {Desc("Node", <<c>>) : c \in Leaves}
    \cup {Desc("Node", <<l, r>>) : l \in FewLeaves, r \in FewLeaves}
Nested ==
    {BinaryDesc("+", Desc("Node", <<l>>), r) : l \in FewLeaves, r \in FewLeaves}
    \cup {BinaryDesc("*", BinaryDesc("+", a, b), c) :
              a \in FewLeaves, b \in FewLeaves, c \in {MemoryVectorDesc(20, 3, <<>>)}}
    \cup {UnaryDesc("-", Desc("Node", <<c>>)) : c \in FewLeaves}
    \cup {Desc("Node", <<UnaryDesc("-", c)>>) : c \in FewLeaves}
    \cup {UnaryDesc("-", BinaryDesc("+", a, b)) : a \in FewLeaves, b \in FewLeaves}
    \cup {Desc("Node", <<BinaryDesc("+", Desc("Node", <<a>>), b)>>) :
              a \in FewLeaves, b \in FewLeaves}
Expressions == Leaves \cup Flat \cup Nested
Assignments == {Desc("Assignment", <<t, e>>) : t \in Targets, e \in Expressions}
FewAssignments ==
    {Desc("Assignment", <<t, e>>) :
        t \in {MemoryVectorDesc(10, 2, <<>>), MemoryVectorDesc(10, 3, <<>>)},
        e \in {MemoryVectorDesc(20, 2, <<>>), StaticVectorDesc(<<5, 6, 7>>),
               BinaryDesc("+", MemoryVectorDesc(20, 2, <<>>), StaticVectorDesc(<<5, 6, 7>>))}}
    \cup {Desc("Assignment", <<MemoryVectorDesc(10, 0, <<>>), MemoryVectorDesc(20, 0, <<>>)>>)}
Blocks ==
    {Desc("Block", <<>>)}
    \cup {Desc("Block", <<a>>) : a \in FewAssignments}
    \cup {Desc("Block", <<a, b>>) : a \in FewAssignments, b \in FewAssignments}
InputTrees == Targets \cup Expressions \cup Assignments \cup Blocks

\* ------------------------------------------------------ the state machine
VARIABLES
    heap,         \* the node objects, by identity
    orig,         \* the heap as it was when treeExpand was called
    deleted,      \* the identities freed so far
    unknownAddr,  \* nodes built from the sentinel address plus an index
    root,         \* the caller's pointer to the tree
    pc,           \* "ready" before the expansion, "done" after
    idx,          \* the index the caller passed to treeExpand
    out,          \* how treeExpand left: st, pos, msg, sizes
    query         \* the last memory query on the root and its result

vars == <<heap, orig, deleted, unknownAddr, root, pc, idx, out, query>>

NoOut == [st |-> "none", pos |-> 0, msg |-> "", hasSizes |-> FALSE, lSize |-> 0, rSize |-> 0]
NoQuery == [op |-> "none", res |-> QOk(0)]

Init ==
    /\ \E t \in InputTrees : heap = Build(<<>>, t)
    /\ orig = heap
    /\ deleted = {}
    /\ unknownAddr = {}
    /\ root = 1
    /\ pc = "ready"
    /\ idx = 0
    /\ out = NoOut
    /\ query = NoQuery

\* the caller asks the root for its memory size
GetMemorySize ==
    /\ pc = "ready"
    /\ query' = [op |-> "getMemorySize", res |-> getMemorySize(heap, root)]
    /\ UNCHANGED <<heap, orig, deleted, unknownAddr, root, pc, idx, out>>

\* the caller asks the root for its memory address
GetMemoryAddr ==
    /\ pc = "ready"
    /\ query' = [op |-> "getMemoryAddr", res |-> getMemoryAddr(heap, root)]
    /\ UNCHANGED <<heap, orig, deleted, unknownAddr, root, pc, idx, out>>

\* MemoryVectorNode::setWrite(true) on a root memory reference
SetWrite ==
    /\ pc = "ready"
    /\ heap[root].kind = "MemoryVector"
    /\ heap[root].write = FALSE
    /\ heap' = [heap EXCEPT ![root].write = TRUE]
    /\ orig' = heap'
    /\ query' = NoQuery
    /\ UNCHANGED <<deleted, unknownAddr, root, pc, idx, out>>

\* root = root->treeExpand(dump, index)
TreeExpand ==
    /\ pc = "ready"
    /\ \E index \in 0..MaxIndex :
         LET x == treeExpand(heap, deleted, unknownAddr, root, index) IN
         /\ heap' = x.heap
         /\ deleted' = x.deleted
         /\ unknownAddr' = x.unknownAddr
         /\ root' = IF x.st = "ok" THEN x.val ELSE root
         /\ idx' = index
         /\ out' = [st |-> x.st, pos |-> x.pos, msg |-> x.msg,
                    hasSizes |-> x.hasSizes, lSize |-> x.lSize, rSize |-> x.rSize]
    /\ pc' = "done"
    /\ query' = NoQuery
    /\ UNCHANGED orig

Next == GetMemorySize \/ GetMemoryAddr \/ SetWrite \/ TreeExpand

Spec == Init /\ [][Next]_vars

\* ------------------------------------------------------------ vocabulary
Done == pc = "done"
InputIds == 1..Len(orig)
\* the two operands of an Assignment or BinaryArithmetic node of the input
Left(n) == orig[n].children[1]
Right(n) == orig[n].children[2]
OrigSize(n) == getMemorySize(orig, n)
\* a node of the input whose two operand sizes resolve and differ
Mismatched(n) ==
    /\ orig[n].kind \in {"Assignment", "BinaryArithmetic"}
    /\ OrigSize(Left(n)).st = "ok"
    /\ OrigSize(Right(n)).st = "ok"
    /\ OrigSize(Left(n)).val # OrigSize(Right(n)).val
\* an Assignment of the input that passes its own size check
Consistent(n) ==
    /\ orig[n].kind = "Assignment"
    /\ OrigSize(Left(n)).st = "ok"
    /\ OrigSize(Right(n)).st = "ok"
    /\ OrigSize(Left(n)).val = OrigSize(Right(n)).val
\* a memory reference with no index or a constant one
ConstRef(n) ==
    /\ orig[n].kind = "MemoryVector"
    /\ \A k \in 1..Len(orig[n].children) : orig[orig[n].children[k]].kind = "StaticVector"
\* lo and size of a ConstRef, read off its index child
RefLo(n) == IF orig[n].children = <<>> THEN 0 ELSE orig[orig[n].children[1]].values[1]
RefSize(n) ==
    IF orig[n].children = <<>> THEN orig[n].arraySize
    ELSE LET ix == orig[orig[n].children[1]].values IN
         IF Len(ix) = 1 THEN 1 ELSE ToUnsigned(ix[2] - ix[1] + 1)

\* (C1) An Assignment between two memory references of the same size n
\* expands to a Block of exactly n two-child Assignments; the i-th stores to
\* element i of the target and reads element i of the value, i = 0..n-1.
C1_PerElementAssignments ==
    (/\ Done
     /\ Consistent(1)
     /\ orig[Left(1)].kind = "MemoryVector"
     /\ orig[Right(1)].kind = "MemoryVector")
    => LET n == OrigSize(Left(1)).val
           ta == getMemoryAddr(orig, Left(1)).val
           va == getMemoryAddr(orig, Right(1)).val
       IN  /\ out.st = "ok"
           /\ heap[root].kind = "Block"
           /\ Len(heap[root].children) = n
           /\ \A i \in 0..(n - 1) :
                LET a == heap[heap[root].children[i + 1]] IN
                /\ a.kind = "Assignment"
                /\ Len(a.children) = 2
                /\ heap[a.children[1]] = StoreNode(orig[Left(1)].sourcePos, ToUnsigned(ta + i))
                /\ heap[a.children[2]] = LoadNode(orig[Right(1)].sourcePos, ToUnsigned(va + i))

\* v[0..2] := w[0..2] has been expanded to three element assignments
C1_Witness ==
    /\ Done
    /\ Consistent(1)
    /\ orig[Left(1)].kind = "MemoryVector"
    /\ orig[Right(1)].kind = "MemoryVector"
    /\ orig[Left(1)].children # <<>>
    /\ OrigSize(Left(1)).val = 3
    /\ out.st = "ok"
    /\ Len(heap[root].children) = 3

\* (C5) Element i < size of a memory reference with base b and no index,
\* one constant index or a constant range expands to a node with address
\* b + lo + i: a Store when the reference is marked as write, else a Load.
C5_ElementAddress ==
    (Done /\ ConstRef(1) /\ idx < RefSize(1))
    => /\ out.st = "ok"
       /\ heap[root] =
            IF orig[1].write
            THEN StoreNode(orig[1].sourcePos, ToUnsigned(orig[1].arrayAddr + RefLo(1) + idx))
            ELSE LoadNode(orig[1].sourcePos, ToUnsigned(orig[1].arrayAddr + RefLo(1) + idx))

\* element 1 of a write-marked range that starts at lo = 1 became a Store
C5_Witness ==
    /\ Done
    /\ ConstRef(1)
    /\ orig[1].write
    /\ RefLo(1) = 1
    /\ idx = 1
    /\ idx < RefSize(1)
    /\ heap[root].kind = "Store"

RECURSIVE View(_, _)
\* the tree below n with the identities left out
View(h, n) ==
    [kind |-> h[n].kind, sourcePos |-> h[n].sourcePos, op |-> h[n].op,
     value |-> h[n].value, address |-> h[n].address,
     ch |-> [k \in 1..Len(h[n].children) |-> View(h, h[n].children[k])]]

RECURSIVE Operands(_, _)
RECURSIVE OperandsFrom(_, _, _)
\* the operands of the expression n, left to right: its memory references
\* and its other leaves
Operands(h, n) ==
    IF h[n].kind = "MemoryVector" \/ h[n].children = <<>> THEN <<n>>
    ELSE OperandsFrom(h, n, 1)
OperandsFrom(h, n, k) ==
    IF k > Len(h[n].children) THEN <<>>
    ELSE Operands(h, h[n].children[k]) \o OperandsFrom(h, n, k + 1)

RECURSIVE Arithmetic(_)
\* an arithmetic expression of the input over memory references
Arithmetic(n) ==
    \/ orig[n].kind = "MemoryVector"
    \/ /\ orig[n].kind \in {"BinaryArithmetic", "UnaryArithmetic"}
       /\ \A k \in 1..Len(orig[n].children) : Arithmetic(orig[n].children[k])

\* (C9) A BinaryArithmetic or UnaryArithmetic node expanded at index i
\* returns a new node of the same kind and operator over the expansions of
\* its children at i, in order; so the j-th assignment generated from an
\* Assignment over an arithmetic expression reads element j of every operand.
C9_SameIndexArithmetic ==
    /\ (Done /\ orig[1].kind \in {"BinaryArithmetic", "UnaryArithmetic"} /\ out.st = "ok")
       => /\ root \notin InputIds
          /\ heap[root].kind = orig[1].kind
          /\ heap[root].op = orig[1].op
          /\ Len(heap[root].children) = Len(orig[1].children)
          /\ \A k \in 1..Len(orig[1].children) :
               LET x == treeExpand(orig, {}, {}, orig[1].children[k], idx) IN
               /\ x.st = "ok"
               /\ View(heap, heap[root].children[k]) = View(x.heap, x.val)
    /\ (Done /\ Consistent(1) /\ Arithmetic(Right(1)) /\ out.st = "ok")
       => LET ops == Operands(orig, Right(1)) IN
          \A j \in 0..(OrigSize(Left(1)).val - 1) :
             LET got == Operands(heap, heap[heap[root].children[j + 1]].children[2]) IN
             /\ Len(got) = Len(ops)
             /\ \A k \in 1..Len(ops) :
                  /\ heap[got[k]].kind = "Load"
                  /\ heap[got[k]].address = ToUnsigned(getMemoryAddr(orig, ops[k]).val + j)

\* an assignment of three elements from a nested arithmetic expression over
\* three memory references was expanded
C9_Witness ==
    /\ Done
    /\ out.st = "ok"
    /\ Consistent(1)
    /\ Arithmetic(Right(1))
    /\ Len(Operands(orig, Right(1))) = 3
    /\ Len(heap[root].children) = 3

\* (C10) Once the size check of an Assignment has passed, no
\* index-out-of-range assertion fires while the Assignment is expanded.
C10_NoIndexAssertion ==
    (Done /\ Consistent(1) /\ orig[Left(1)].kind = "MemoryVector")
    => ~(out.st = "assert" /\ out.msg = "index < getMemorySize()")

\* three elements were expanded through a container holding a literal vector
C10_Witness ==
    /\ Done
    /\ Consistent(1)
    /\ OrigSize(Left(1)).val = 3
    /\ orig[Right(1)].kind = "Node"
    /\ \E k \in 1..Len(orig[Right(1)].children) :
          orig[orig[Right(1)].children[k]].kind = "StaticVector"
    /\ out.st = "ok"
    /\ Len(heap[root].children) = 3

\* (C2) Expansion that reaches an Assignment or BinaryArithmetic node whose
\* operands differ in size (also a BinaryArithmetic that is the value of an
\* Assignment) aborts with an error carrying both sizes and that node's
\* source position, and returns no tree.  The nested case is stated for a
\* left operand whose size is not the sentinel value.
C2_MismatchCarriesSizes ==
    /\ (Done /\ Mismatched(1))
       => /\ out.st = "throw"
          /\ out.pos = orig[1].sourcePos
          /\ out.hasSizes
          /\ out.lSize = OrigSize(Left(1)).val
          /\ out.rSize = OrigSize(Right(1)).val
          /\ root = 1
    /\ (/\ Done
        /\ orig[1].kind = "Assignment"
        /\ Mismatched(Right(1))
        /\ OrigSize(Left(Right(1))).val # E_NOVAL)
       => /\ out.st = "throw"
          /\ out.pos = orig[Right(1)].sourcePos
          /\ out.hasSizes
          /\ out.lSize = OrigSize(Left(Right(1))).val
          /\ out.rSize = OrigSize(Right(Right(1))).val
          /\ root = 1

\* (C3) When the size-mismatch error is raised, no node of the input has
\* been replaced in its parent's child list, marked as write or discarded.
C3_ErrorBeforeSideEffects ==
    (Done /\ out.st = "throw")
    => /\ \A n \in InputIds : heap[n] = orig[n]
       /\ deleted \cap InputIds = {}

\* (C6) No Load or Store node is built from the unknown-address sentinel
\* plus an element index.
C6_SentinelNeverInArithmetic == unknownAddr = {}

\* the containers, which answer the size query by the generic rule
ContainerKinds == {"Node", "Block"}

\* (C7) The generic size query raises "Size mismatch between vectors" at
\* the node's source position exactly when two of its children differ in
\* size, whatever their order, and else returns their common size.  Stated
\* for the containers.
C7_MismatchIffChildrenDiffer ==
    (/\ query.op = "getMemorySize"
     /\ heap[root].kind \in ContainerKinds
     /\ heap[root].children # <<>>
     /\ \A k \in 1..Len(heap[root].children) :
           getMemorySize(heap, heap[root].children[k]).st = "ok")
    => LET sizes == {getMemorySize(heap, heap[root].children[k]).val :
                        k \in 1..Len(heap[root].children)}
       IN  IF Cardinality(sizes) > 1
           THEN query.res = QThrow(heap[root].sourcePos, "Size mismatch between vectors")
           ELSE query.res.st = "ok" /\ query.res.val \in sizes

\* (C8) The result of expanding an Assignment is a tree with exclusive
\* ownership: no node has two parents, and none belongs to the discarded
\* original Assignment.
C8_ExclusiveOwnership ==
    (Done /\ orig[1].kind = "Assignment" /\ out.st = "ok")
    => /\ \A p, q \in Reach(heap, root) :
            \A i \in 1..Len(heap[p].children), j \in 1..Len(heap[q].children) :
               heap[p].children[i] = heap[q].children[j] => (p = q /\ i = j)
       /\ Reach(heap, root) \cap deleted = {}

Leaf(n) == heap[n].children = <<>>
ScalarKinds == {"Immediate", "Load", "Store"}

\* (C4) as stated: every leaf of a returned tree is an Immediate, a Load or
\* a Store of memory size 1.
C4_OnlyScalarLeaves ==
    (Done /\ out.st = "ok")
    => \A n \in Reach(heap, root) :
          Leaf(n) => (heap[n].kind \in ScalarKinds /\ getMemorySize(heap, n) = QOk(1))

\* (C4) amended: no MemoryReference or StaticVector remains in a returned
\* tree, and every leaf is an Immediate, Load or Store of memory size 1, or a
\* childless container: a container that had no children in the input, or
\* the empty Block that replaces an Assignment of memory size 0.
C4_ScalarLeavesOrEmptyContainers ==
    (Done /\ out.st = "ok")
    => \A n \in Reach(heap, root) :
          /\ heap[n].kind \notin {"MemoryVector", "StaticVector"}
          /\ Leaf(n) =>
               \/ heap[n].kind \in ScalarKinds /\ getMemorySize(heap, n) = QOk(1)
               \/ /\ n \in InputIds
                  /\ orig[n].kind \in {"Node", "Block"}
                  /\ orig[n].children = <<>>
               \/ /\ n \notin InputIds
                  /\ heap[n].kind = "Block"
                  /\ \E a \in InputIds :
                       /\ orig[a].kind = "Assignment"
                       /\ orig[a].sourcePos = heap[n].sourcePos
                       /\ OrigSize(Left(a)) = QOk(0)

\* a Block of a three-element assignment and a zero-size one was expanded:
\* the result holds Store leaves and an empty Block
C4_Witness ==
    /\ Done
    /\ out.st = "ok"
    /\ orig[1].kind = "Block"
    /\ \E n \in Reach(heap, root) : heap[n].kind = "Store"
    /\ \E n \in Reach(heap, root) : heap[n].kind = "Immediate"
    /\ \E n \in Reach(heap, root) : n # root /\ Leaf(n) /\ heap[n].kind = "Block"

====
